---- MODULE Spec2Model ----
(***************************************************************************)
(* Bedtime story generator (src/main.py): the generate -> judge ->         *)
(* revise-once pipeline and the budgeted customization menu, modelled at   *)
(* the granularity of the blocking calls (input() and the chat port).      *)
(***************************************************************************)
EXTENDS Integers, Sequences, FiniteSets, TLC

(* ---------------------------------------------------------------- bounds *)
\* largest max_customizations a session is started with
MaxBudget == 3
\* number of free menu rounds (invalid input, cancelled prompt) per session
MaxIdle == 2

(* ----------------------------------------------------- JSON-like values *)
\* A JSON scalar is a triple <<tag, n, s>>: a number carries n, a boolean
\* carries n = 0 or 1, a string carries s, null carries neither.
JBool(b) == <<"bool", IF b THEN 1 ELSE 0, "">>
JNum(n) == <<"num", n, "">>
JStr(s) == <<"str", 0, s>>
JNull == <<"null", 0, "">>

\* Python truth value of a JSON scalar (bool(x))
Truthy(v) == IF v[1] = "str" THEN v[3] # "" ELSE v[2] # 0

Keys == {"score", "needs_revision", "feedback_for_author", "safety_warnings"}

\* dict.setdefault(k, d) on a dict whose present keys are DOMAIN obj
SetDefault(obj, k, d) == IF k \in DOMAIN obj THEN obj[k] ELSE d

\* A port response to the judge: kind "text" is text that is not JSON,
\* "none" an absent message content, "scalar"/"array" JSON that is not an
\* object, "object" a JSON object with the members of obj.
EmptyObj == [k \in {} |-> JNull]
Raw(kind, obj) == [kind |-> kind, obj |-> obj]

\* the exception the try body of judge_story raises on raw ("none": none):
\* json.loads on text that is not JSON and on None, setdefault on a value
\* that is not a dict
TryRaises(raw) ==
    CASE raw.kind = "text" -> "JSONDecodeError"
      [] raw.kind = "none" -> "TypeError"
      [] raw.kind \in {"scalar", "array"} -> "AttributeError"
      [] raw.kind = "object" -> "none"

\* an except clause that names JSONDecodeError only
CaughtDecodeErrorOnly(exc) == exc = "JSONDecodeError"

\* except Exception
Caught(exc) == exc \in {"JSONDecodeError", "TypeError", "AttributeError"}

\* json.loads(raw) succeeds and yields a dict
LoadsDict(raw) == TryRaises(raw) = "none"

\* the exception leaves judge_story
JudgeRaises(raw) == TryRaises(raw) # "none" /\ ~Caught(TryRaises(raw))

\* the except-branch verdict of judge_story
FailClosedVerdict ==
    [score |-> JNum(0),
     needs_revision |-> JBool(TRUE),
     feedback_for_author |-> JStr("Could not parse judge response."),
     safety_warnings |-> JStr("Parsing failed.")]

\* the try-branch of judge_story: the parsed dict with defaults filled in
ParsedVerdict(obj) ==
    [score |-> SetDefault(obj, "score", JNum(0)),
     needs_revision |-> SetDefault(obj, "needs_revision", JBool(FALSE)),
     feedback_for_author |-> SetDefault(obj, "feedback_for_author", JStr("")),
     safety_warnings |-> SetDefault(obj, "safety_warnings", JStr(""))]

\* judge_story, from the port's response on, when no exception leaves it
judge_story(raw) ==
    IF LoadsDict(raw) THEN ParsedVerdict(raw.obj) ELSE FailClosedVerdict

\* verdict.get("needs_revision", False) as a condition
NeedsRevision(v) == Truthy(v.needs_revision)

(* ------------------------------------------------------------ str.strip *)
IsSpace(c) == c = " "

RECURSIVE LStrip(_)
LStrip(s) == IF s # <<>> /\ IsSpace(Head(s)) THEN LStrip(Tail(s)) ELSE s

RECURSIVE RStrip(_)
RStrip(s) ==
    IF s # <<>> /\ IsSpace(s[Len(s)]) THEN RStrip(SubSeq(s, 1, Len(s) - 1)) ELSE s

strip(s) == RStrip(LStrip(s))

(* ------------------------------------------------------- inputs, ports *)
\* lines the requester can type at the menu prompt
MenuLines == {<<"1">>, <<"2">>, <<" ", "3">>, <<"4", " ">>, <<"5">>, <<>>}
\* lines typed at the level prompt
LevelLines == {<<"1">>, <<" ", "2">>, <<"3">>, <<"4">>, <<>>}
\* lines typed at the judge-info prompt (already lower-cased)
YesNoLines == {<<"y">>, <<"n", "o">>, <<"x">>}
\* free text lines
RequestLines == {<<"a">>, <<>>}
NewRequestLines == {<<>>, <<" ">>, <<" ", "b">>}
SuggestionLines == {<<>>, <<" ", " ">>, <<"s", " ">>}

\* responses of the port to a judge_story call
JudgeResponses ==
    { Raw("text", EmptyObj),
      Raw("none", EmptyObj),
      Raw("array", EmptyObj),
      Raw("object", EmptyObj),
      Raw("object", [score |-> JNum(9), needs_revision |-> JBool(FALSE),
                     feedback_for_author |-> JStr("ok"),
                     safety_warnings |-> JStr("")]),
      Raw("object", [score |-> JNum(3), needs_revision |-> JBool(TRUE),
                     feedback_for_author |-> JStr("add a moral"),
                     safety_warnings |-> JStr("scary")]),
      Raw("object", [score |-> JNum(11), needs_revision |-> JStr("no"),
                     feedback_for_author |-> JStr("ok"),
                     safety_warnings |-> JStr("")]) }

\* members a JSON object of the judge may carry under each key
MemberValues(k) ==
    CASE k = "score" -> {JNum(0), JNum(7), JNum(11), JStr("high")}
      [] k = "needs_revision" -> {JBool(TRUE), JBool(FALSE), JStr("no"), JNull}
      [] k = "feedback_for_author" -> {JStr(""), JStr("ok")}
      [] k = "safety_warnings" -> {JStr(""), JStr("scary")}

AllMemberValues == UNION {MemberValues(k) : k \in Keys}

\* every JSON object over a subset of the four keys
JudgeObjects ==
    UNION { {f \in [S -> AllMemberValues] : \A k \in S : f[k] \in MemberValues(k)} :
            S \in SUBSET Keys }

\* every kind of response, for judge_story taken alone
AllJudgeResponses ==
    {Raw(kind, EmptyObj) : kind \in {"text", "none", "scalar", "array"}}
        \cup {Raw("object", obj) : obj \in JudgeObjects}

\* user_modification_instruction or "No extra user requests."
NoExtraRequests == <<"No extra user requests.">>
ExtraInstr(instr) == IF instr = <<>> THEN NoExtraRequests ELSE instr

\* what a port call was made with
NoCall ==
    [fn |-> "none", request |-> <<>>, level |-> <<>>, story |-> 0,
     feedback |-> JNull, instr |-> <<>>]
GenerateCall(request, level) ==
    [fn |-> "generate", request |-> request, level |-> level, story |-> 0,
     feedback |-> JNull, instr |-> <<>>]
JudgeStoryCall(request, s, level) ==
    [fn |-> "judge", request |-> request, level |-> level, story |-> s,
     feedback |-> JNull, instr |-> <<>>]
ReviseCall(request, s, v, level, instr) ==
    [fn |-> "revise", request |-> request, level |-> level, story |-> s,
     feedback |-> v.feedback_for_author, instr |-> ExtraInstr(instr)]

NoVerdict ==
    [score |-> JNull, needs_revision |-> JNull,
     feedback_for_author |-> JNull, safety_warnings |-> JNull]

(* ---------------------------------------------------------------- state *)
VARIABLES
    pc,                  \* position of the single control flow
    api_key,             \* os.getenv("OPENAI_API_KEY"): [present, value]
    max_customizations,
    show_judge_info,
    reading_level,       \* main's / customization_menu's reading_level
    current_request,     \* main's user_request, then the menu's current_request
    story,               \* current story (0: none yet); stories are numbered
    verdict,             \* current verdict
    customizations_used,
    mod,                 \* the suggestion read by choice 2
    p_request, p_level,  \* arguments of generate_story_with_judge
    p_story, p_verdict,  \* its locals
    p_ret,               \* its caller: "main" or "menu"
    returned,            \* what customization_menu returned: <<story, verdict>>
    \* history variables
    verdictOf,           \* the story the current verdict was computed from
    p_verdictOf,         \* same for the pipeline's local verdict
    nStories,            \* stories produced by the port so far
    portCalls,           \* port calls issued so far
    mainCalls,           \* port calls issued before customization_menu was entered
    p_calls,             \* port calls issued by the running pipeline call
    p_revises,           \* revise_story calls of the running pipeline call
    menus,               \* menu presentations so far
    idle,                \* free rounds so far (invalid or cancelled)
    snap,                \* session as it was at the last menu presentation
    lastAction,          \* what the last menu iteration did
    failedAt,            \* position of the port call that raised
    raw,                 \* the port's latest response to judge_story
    lastCall,            \* what the latest port call that returned was made with
    p_log,               \* the port calls of the running pipeline call, in order
    shownStory,          \* the story printed last (0: none)
    shownVerdict,        \* the judge summary printed last (NoVerdict: none)
    shows                \* stories printed so far

vars == <<pc, api_key, max_customizations, show_judge_info, reading_level,
          current_request, story, verdict, customizations_used, mod,
          p_request, p_level, p_story, p_verdict, p_ret, returned,
          verdictOf, p_verdictOf, nStories, portCalls, mainCalls, p_calls,
          p_revises, menus, idle, snap, lastAction, failedAt, raw, lastCall, p_log,
          shownStory, shownVerdict, shows>>

session == <<reading_level, current_request, story, verdict, customizations_used>>
frame == <<p_request, p_level, p_story, p_verdict, p_ret, p_verdictOf, p_calls,
          p_revises, p_log>>
screen == <<shownStory, shownVerdict, shows>>
history == <<menus, idle, snap, lastAction>>

Session ==
    [used |-> customizations_used, story |-> story, verdict |-> verdict,
     request |-> current_request, level |-> reading_level, calls |-> portCalls]

NoSession ==
    [used |-> 0, story |-> 0, verdict |-> NoVerdict,
     request |-> <<>>, level |-> <<>>, calls |-> 0]

\* nothing has run yet
Fresh ==
    /\ show_judge_info = FALSE
    /\ reading_level = <<>>
    /\ current_request = <<>>
    /\ story = 0
    /\ verdict = NoVerdict
    /\ customizations_used = 0
    /\ mod = <<>>
    /\ p_request = <<>>
    /\ p_level = <<>>
    /\ p_story = 0
    /\ p_verdict = NoVerdict
    /\ p_ret = "main"
    /\ returned = <<0, NoVerdict>>
    /\ verdictOf = 0
    /\ p_verdictOf = 0
    /\ nStories = 0
    /\ portCalls = 0
    /\ mainCalls = 0
    /\ p_calls = 0
    /\ p_revises = 0
    /\ menus = 0
    /\ idle = 0
    /\ snap = NoSession
    /\ lastAction = "none"
    /\ failedAt = "none"
    /\ lastCall = NoCall
    /\ p_log = <<>>
    /\ shownStory = 0
    /\ shownVerdict = NoVerdict
    /\ shows = 0

Init ==
    /\ pc = "get_client"
    /\ api_key \in {[present |-> FALSE, value |-> ""],
                    [present |-> TRUE, value |-> ""],
                    [present |-> TRUE, value |-> "sk"]}
    /\ max_customizations \in 0..MaxBudget
    /\ raw = Raw("none", EmptyObj)
    /\ Fresh

(* ------------------------------------------------------------- the port *)
\* a call_chat that tries again after a failure
PortFailsRetried ==
    /\ pc' = pc
    /\ failedAt' = pc
    /\ portCalls' = portCalls + 1
    /\ UNCHANGED <<api_key, max_customizations, show_judge_info, session, mod,
                   frame, returned, verdictOf, nStories, mainCalls, history, raw, lastCall, screen>>

\* call_chat raised: nothing catches it, the flow ends where it stood
PortFails ==
    /\ pc' = "failed"
    /\ failedAt' = pc
    /\ portCalls' = portCalls + 1
    /\ UNCHANGED <<api_key, max_customizations, show_judge_info, session, mod,
                   frame, returned, verdictOf, nStories, mainCalls, history, raw, lastCall, screen>>

\* call_chat returned
PortReturns ==
    portCalls' = portCalls + 1 /\ mainCalls' = mainCalls /\ failedAt' = failedAt

(* ----------------------------------------------------------------- main *)
\* a get_client that does not look at the key
get_clientUnchecked ==
    /\ pc = "get_client"
    /\ pc' = "main_request"
    /\ UNCHANGED <<api_key, max_customizations, show_judge_info, session, mod,
                   frame, returned, verdictOf, nStories, portCalls, mainCalls, history, failedAt, raw, lastCall, screen>>

\* client = get_client(), run when the module is loaded
get_client ==
    /\ pc = "get_client"
    /\ pc' = IF ~api_key.present \/ api_key.value = "" THEN "abort" ELSE "main_request"
    /\ UNCHANGED <<api_key, max_customizations, show_judge_info, session, mod,
                   frame, returned, verdictOf, nStories, portCalls, mainCalls, history, failedAt, raw, lastCall, screen>>

\* user_request = input(...): taken as typed
MainRequest ==
    /\ pc = "main_request"
    /\ \E line \in RequestLines : current_request' = line
    /\ pc' = "main_level"
    /\ UNCHANGED <<api_key, max_customizations, show_judge_info, reading_level,
                   story, verdict, customizations_used, mod, frame, returned,
                   verdictOf, nStories, portCalls, mainCalls, history, failedAt, raw, lastCall, screen>>

Levels == {<<"1">>, <<"2">>, <<"3">>}

\* one round of select_reading_level's loop: the level read, or <<>> to ask again
select_reading_level(line) == IF strip(line) \in Levels THEN strip(line) ELSE <<>>

MainSelectLevel ==
    /\ pc = "main_level"
    /\ \E line \in LevelLines :
          LET lvl == select_reading_level(line) IN
          IF lvl = <<>>
          THEN UNCHANGED <<pc, reading_level>>
          ELSE reading_level' = lvl /\ pc' = "main_judge"
    /\ UNCHANGED <<api_key, max_customizations, show_judge_info, current_request,
                   story, verdict, customizations_used, mod, frame, returned,
                   verdictOf, nStories, portCalls, mainCalls, history, failedAt, raw, lastCall, screen>>

\* generate_story_with_judge(request, level) is entered from caller
CallPipeline(request, level, caller) ==
    /\ pc' = "p_generate"
    /\ p_request' = request
    /\ p_level' = level
    /\ p_ret' = caller
    /\ p_story' = 0
    /\ p_verdict' = NoVerdict
    /\ p_verdictOf' = 0
    /\ p_calls' = 0
    /\ p_revises' = 0
    /\ p_log' = <<>>

\* one round of ask_show_judge_info's loop, then main calls the pipeline
MainAskJudge ==
    /\ pc = "main_judge"
    /\ \E line \in YesNoLines :
          LET ans == strip(line) IN
          IF ans \in {<<"y">>, <<"y", "e", "s">>}
          THEN show_judge_info' = TRUE
               /\ CallPipeline(current_request, reading_level, "main")
          ELSE IF ans \in {<<"n">>, <<"n", "o">>}
          THEN show_judge_info' = FALSE
               /\ CallPipeline(current_request, reading_level, "main")
          ELSE UNCHANGED <<pc, show_judge_info, frame>>
    /\ UNCHANGED <<api_key, max_customizations, session, mod, returned,
                   verdictOf, nStories, portCalls, mainCalls, history, failedAt, raw, lastCall, screen>>

(* ------------------------------------------- generate_story_with_judge *)
\* story = generate_story(user_request, reading_level)
PipelineGenerate ==
    /\ pc = "p_generate"
    /\ \/ /\ PortReturns
          /\ lastCall' = GenerateCall(p_request, p_level)
          /\ nStories' = nStories + 1
          /\ p_story' = nStories + 1
          /\ p_calls' = p_calls + 1
          /\ p_log' = Append(p_log, "generate")
          /\ pc' = "p_judge1"
          /\ UNCHANGED <<api_key, max_customizations, show_judge_info, session, mod,
                         p_request, p_level, p_verdict, p_ret, p_verdictOf,
                         p_revises, returned, verdictOf, history, raw, screen>>
       \/ PortFails

\* verdict = judge_story(...); if verdict.get("needs_revision", False): ...
PipelineJudgeFirst ==
    /\ pc = "p_judge1"
    /\ \/ /\ PortReturns
          /\ lastCall' = JudgeStoryCall(p_request, p_story, p_level)
          /\ \E r \in JudgeResponses :
                /\ raw' = r
                /\ IF JudgeRaises(r)
                   THEN pc' = "crashed" /\ UNCHANGED <<p_verdict, p_verdictOf>>
                   ELSE /\ p_verdict' = judge_story(r)
                        /\ p_verdictOf' = p_story
                        /\ pc' = IF NeedsRevision(judge_story(r))
                                 THEN "p_revise" ELSE "p_return"
          /\ p_calls' = p_calls + 1
          /\ p_log' = Append(p_log, "judge")
          /\ UNCHANGED <<api_key, max_customizations, show_judge_info, session, mod,
                         p_request, p_level, p_story, p_ret, p_revises,
                         returned, verdictOf, nStories, history, screen>>
       \/ PortFails

\* story = revise_story(user_request, story, verdict, reading_level)
PipelineRevise ==
    /\ pc = "p_revise"
    /\ \/ /\ PortReturns
          /\ lastCall' = ReviseCall(p_request, p_story, p_verdict, p_level, <<>>)
          /\ nStories' = nStories + 1
          /\ p_story' = nStories + 1
          /\ p_calls' = p_calls + 1
          /\ p_revises' = p_revises + 1
          /\ p_log' = Append(p_log, "revise")
          /\ pc' = "p_judge2"
          /\ UNCHANGED <<api_key, max_customizations, show_judge_info, session, mod,
                         p_request, p_level, p_verdict, p_ret, p_verdictOf,
                         returned, verdictOf, history, raw, screen>>
       \/ PortFails

\* a second judgment that asks for another revision
PipelineJudgeSecondLoops ==
    /\ pc = "p_judge2"
    /\ \/ /\ PortReturns
          /\ lastCall' = JudgeStoryCall(p_request, p_story, p_level)
          /\ \E r \in JudgeResponses :
                /\ raw' = r
                /\ p_verdict' = judge_story(r)
                /\ pc' = IF NeedsRevision(judge_story(r)) THEN "p_revise" ELSE "p_return"
          /\ p_verdictOf' = p_story
          /\ p_calls' = p_calls + 1
          /\ p_log' = Append(p_log, "judge")
          /\ UNCHANGED <<api_key, max_customizations, show_judge_info, session, mod,
                         p_request, p_level, p_story, p_ret, p_revises,
                         returned, verdictOf, nStories, history, screen>>
       \/ PortFails

\* verdict = judge_story(user_request, story, reading_level), the second time
PipelineJudgeSecond ==
    /\ pc = "p_judge2"
    /\ \/ /\ PortReturns
          /\ lastCall' = JudgeStoryCall(p_request, p_story, p_level)
          /\ \E r \in JudgeResponses :
                /\ raw' = r
                /\ IF JudgeRaises(r)
                   THEN pc' = "crashed" /\ UNCHANGED <<p_verdict, p_verdictOf>>
                   ELSE /\ p_verdict' = judge_story(r)
                        /\ p_verdictOf' = p_story
                        /\ pc' = "p_return"
          /\ p_calls' = p_calls + 1
          /\ p_log' = Append(p_log, "judge")
          /\ UNCHANGED <<api_key, max_customizations, show_judge_info, session, mod,
                         p_request, p_level, p_story, p_ret, p_revises,
                         returned, verdictOf, nStories, history, screen>>
       \/ PortFails

\* a judge summary that is printed whatever the requester answered
JudgeSummaryAlways(v) == v

\* if show_judge_info: the four fields of the verdict are printed
JudgeSummary(v) == IF show_judge_info THEN v ELSE shownVerdict

\* print(story), then the judge summary if it was asked for
Display(s, v) ==
    /\ shownStory' = s
    /\ shownVerdict' = JudgeSummary(v)
    /\ shows' = shows + 1

\* return story, verdict to main: the story is shown and customization_menu
\* is entered with it (story, verdict, current_request, customizations_used = 0)
MainReceive ==
    /\ pc = "p_return" /\ p_ret = "main"
    /\ story' = p_story
    /\ verdict' = p_verdict
    /\ verdictOf' = p_verdictOf
    /\ Display(p_story, p_verdict)
    /\ customizations_used' = 0
    /\ mainCalls' = portCalls
    /\ pc' = "menu"
    /\ UNCHANGED <<api_key, max_customizations, show_judge_info, reading_level,
                   current_request, mod, frame, returned, nStories, portCalls,
                   history, failedAt, raw, lastCall>>

\* a caller that takes the story and keeps its old verdict
MenuReceiveStoryOnly ==
    /\ pc = "p_return" /\ p_ret = "menu"
    /\ story' = p_story
    /\ Display(p_story, verdict)
    /\ pc' = "menu"
    /\ UNCHANGED <<api_key, max_customizations, show_judge_info, reading_level,
                   current_request, verdict, verdictOf, customizations_used, mod,
                   frame, returned, nStories, portCalls, mainCalls, history, failedAt, raw,
                   lastCall>>

\* story, verdict = generate_story_with_judge(...) in choice 3 or 4, then the
\* updated story is shown and the loop starts over
MenuReceive ==
    /\ pc = "p_return" /\ p_ret = "menu"
    /\ story' = p_story
    /\ verdict' = p_verdict
    /\ verdictOf' = p_verdictOf
    /\ Display(p_story, p_verdict)
    /\ pc' = "menu"
    /\ UNCHANGED <<api_key, max_customizations, show_judge_info, reading_level,
                   current_request, customizations_used, mod, frame, returned,
                   nStories, portCalls, mainCalls, history, failedAt, raw, lastCall>>

(* ---------------------------------------------------- customization_menu *)
\* remaining = max_customizations - customizations_used
Remaining == max_customizations - customizations_used

\* the test written as remaining < 0
BudgetExhaustedStrict(remaining) == remaining < 0

\* if remaining <= 0
BudgetExhausted(remaining) == remaining <= 0

\* a counter that is raised twice
ChargeTwice(used) == used + 2

\* a counter that is never raised
ChargeNever(used) == used

\* customizations_used += 1
Charge(used) == used + 1

\* a cancellation that is not refunded
RefundNothing(used) == used

\* a cancellation that is refunded twice
RefundTwice(used) == used - 2

\* customizations_used -= 1
Refund(used) == used - 1

\* the loop head: the menu is printed with the remaining count
Present ==
    /\ pc = "menu"
    /\ menus' = menus + 1
    /\ snap' = Session
    /\ lastAction' = "none"
    /\ idle' = idle

\* ... and the budget is used up: return story, verdict without prompting
MenuExhausted ==
    /\ Present
    /\ BudgetExhausted(Remaining)
    /\ returned' = <<story, verdict>>
    /\ pc' = "terminal"
    /\ UNCHANGED <<api_key, max_customizations, show_judge_info, session, mod,
                   frame, verdictOf, nStories, portCalls, mainCalls, failedAt, raw, lastCall, screen>>

\* ... and there is budget left: go on to input("Enter 1-4: ")
MenuPrompt ==
    /\ Present
    /\ ~BudgetExhausted(Remaining)
    /\ pc' = "choice"
    /\ UNCHANGED <<api_key, max_customizations, show_judge_info, session, mod,
                   frame, returned, verdictOf, nStories, portCalls, mainCalls, failedAt, raw, lastCall, screen>>

\* an accept that is charged as a customization
AcceptCharged ==
    /\ pc = "choice"
    /\ \E line \in MenuLines : strip(line) = <<"1">>
    /\ returned' = <<story, verdict>>
    /\ customizations_used' = customizations_used + 1
    /\ lastAction' = "accept"
    /\ pc' = "terminal"
    /\ UNCHANGED <<api_key, max_customizations, show_judge_info, reading_level,
                   current_request, story, verdict, mod, frame, verdictOf,
                   nStories, portCalls, mainCalls, menus, idle, snap, failedAt, raw, lastCall, screen>>

\* choice == "1": return story, verdict
Accept ==
    /\ pc = "choice"
    /\ \E line \in MenuLines : strip(line) = <<"1">>
    /\ returned' = <<story, verdict>>
    /\ lastAction' = "accept"
    /\ pc' = "terminal"
    /\ UNCHANGED <<api_key, max_customizations, show_judge_info, session, mod,
                   frame, verdictOf, nStories, portCalls, mainCalls, menus, idle, snap,
                   failedAt, raw, lastCall, screen>>

\* an invalid choice that is counted before it is rejected
InvalidChoiceCharged ==
    /\ pc = "choice"
    /\ idle < MaxIdle
    /\ \E line \in MenuLines : strip(line) \notin {<<"1">>, <<"2">>, <<"3">>, <<"4">>}
    /\ customizations_used' = customizations_used + 1
    /\ idle' = idle + 1
    /\ lastAction' = "invalid"
    /\ pc' = "menu"
    /\ UNCHANGED <<api_key, max_customizations, show_judge_info, reading_level,
                   current_request, story, verdict, mod, frame, returned,
                   verdictOf, nStories, portCalls, mainCalls, menus, snap, failedAt, raw,
                   lastCall, screen>>

\* choice not in {"2", "3", "4"}: continue
InvalidChoice ==
    /\ pc = "choice"
    /\ idle < MaxIdle
    /\ \E line \in MenuLines : strip(line) \notin {<<"1">>, <<"2">>, <<"3">>, <<"4">>}
    /\ idle' = idle + 1
    /\ lastAction' = "invalid"
    /\ pc' = "menu"
    /\ UNCHANGED <<api_key, max_customizations, show_judge_info, session, mod,
                   frame, returned, verdictOf, nStories, portCalls, mainCalls, menus, snap,
                   failedAt, raw, lastCall, screen>>

\* choices 2-4 count as a customization: the counter is raised, then the
\* chosen branch asks for its input
Choose ==
    /\ pc = "choice"
    /\ \E line \in MenuLines :
          /\ strip(line) \in {<<"2">>, <<"3">>, <<"4">>}
          /\ pc' = CASE strip(line) = <<"2">> -> "suggest"
                     [] strip(line) = <<"3">> -> "level"
                     [] strip(line) = <<"4">> -> "newreq"
    /\ customizations_used' = Charge(customizations_used)
    /\ UNCHANGED <<api_key, max_customizations, show_judge_info, reading_level,
                   current_request, story, verdict, mod, frame, returned,
                   verdictOf, nStories, portCalls, mainCalls, history, failedAt, raw, lastCall, screen>>

\* choice 2, "if not mod": the counter is lowered again, continue
SuggestCancel ==
    /\ pc = "suggest"
    /\ idle < MaxIdle
    /\ \E line \in SuggestionLines : strip(line) = <<>>
    /\ customizations_used' = Refund(customizations_used)
    /\ idle' = idle + 1
    /\ lastAction' = "cancel_suggest"
    /\ pc' = "menu"
    /\ UNCHANGED <<api_key, max_customizations, show_judge_info, reading_level,
                   current_request, story, verdict, mod, frame, returned,
                   verdictOf, nStories, portCalls, mainCalls, menus, snap, failedAt, raw, lastCall, screen>>

\* choice 2 with a suggestion: revise_story is called next
SuggestEdits ==
    /\ pc = "suggest"
    /\ \E line \in SuggestionLines :
          /\ strip(line) # <<>>
          /\ mod' = strip(line)
    /\ lastAction' = "suggest"
    /\ pc' = "m_revise"
    /\ UNCHANGED <<api_key, max_customizations, show_judge_info, session,
                   frame, returned, verdictOf, nStories, portCalls, mainCalls, menus, idle,
                   snap, failedAt, raw, lastCall, screen>>

\* a revision that is shown without being judged
MenuReviseUnjudged ==
    /\ pc = "m_revise"
    /\ \/ /\ PortReturns
          /\ lastCall' = ReviseCall(current_request, story, verdict, reading_level, mod)
          /\ nStories' = nStories + 1
          /\ story' = nStories + 1
          /\ Display(nStories + 1, verdict)
          /\ pc' = "menu"
          /\ UNCHANGED <<api_key, max_customizations, show_judge_info,
                         reading_level, current_request, verdict,
                         customizations_used, mod, frame, returned, verdictOf,
                         history, raw>>
       \/ PortFails

\* story = revise_story(current_request, story, verdict, reading_level, mod)
MenuRevise ==
    /\ pc = "m_revise"
    /\ \/ /\ PortReturns
          /\ lastCall' = ReviseCall(current_request, story, verdict, reading_level, mod)
          /\ nStories' = nStories + 1
          /\ story' = nStories + 1
          /\ pc' = "m_judge"
          /\ UNCHANGED <<api_key, max_customizations, show_judge_info,
                         reading_level, current_request, verdict,
                         customizations_used, mod, frame, returned, verdictOf,
                         history, raw, screen>>
       \/ PortFails

\* a judgment that sends the story back for another revision
MenuJudgeRevisesAgain ==
    /\ pc = "m_judge"
    /\ \/ /\ PortReturns
          /\ lastCall' = JudgeStoryCall(current_request, story, reading_level)
          /\ \E r \in JudgeResponses :
                /\ raw' = r
                /\ verdict' = judge_story(r)
                /\ IF NeedsRevision(judge_story(r))
                   THEN pc' = "m_revise" /\ UNCHANGED screen
                   ELSE pc' = "menu" /\ Display(story, judge_story(r))
          /\ verdictOf' = story
          /\ UNCHANGED <<api_key, max_customizations, show_judge_info,
                         reading_level, current_request, story,
                         customizations_used, mod, frame, returned, nStories, mainCalls,
                         history>>
       \/ PortFails

\* verdict = judge_story(current_request, story, reading_level), then the
\* updated story is shown and the loop starts over
MenuJudge ==
    /\ pc = "m_judge"
    /\ \/ /\ PortReturns
          /\ lastCall' = JudgeStoryCall(current_request, story, reading_level)
          /\ \E r \in JudgeResponses :
                /\ raw' = r
                /\ IF JudgeRaises(r)
                   THEN pc' = "crashed" /\ UNCHANGED <<verdict, verdictOf, screen>>
                   ELSE /\ verdict' = judge_story(r)
                        /\ verdictOf' = story
                        /\ Display(story, judge_story(r))
                        /\ pc' = "menu"
          /\ UNCHANGED <<api_key, max_customizations, show_judge_info,
                         reading_level, current_request, story,
                         customizations_used, mod, frame, returned, nStories, mainCalls,
                         history>>
       \/ PortFails

\* a level change that regenerates with the level it replaced
ChangeLevelStale ==
    /\ pc = "level"
    /\ \E line \in LevelLines :
          LET lvl == select_reading_level(line) IN
          IF lvl = <<>>
          THEN UNCHANGED <<pc, reading_level, frame, lastAction>>
          ELSE /\ reading_level' = lvl
               /\ lastAction' = "level"
               /\ CallPipeline(current_request, reading_level, "menu")
    /\ UNCHANGED <<api_key, max_customizations, show_judge_info, current_request,
                   story, verdict, customizations_used, mod, returned, verdictOf,
                   nStories, portCalls, mainCalls, menus, idle, snap, failedAt, raw, lastCall, screen>>

\* choice 3: reading_level = select_reading_level(), then the pipeline
ChangeLevel ==
    /\ pc = "level"
    /\ \E line \in LevelLines :
          LET lvl == select_reading_level(line) IN
          IF lvl = <<>>
          THEN UNCHANGED <<pc, reading_level, frame, lastAction>>
          ELSE /\ reading_level' = lvl
               /\ lastAction' = "level"
               /\ CallPipeline(current_request, lvl, "menu")
    /\ UNCHANGED <<api_key, max_customizations, show_judge_info, current_request,
                   story, verdict, customizations_used, mod, returned, verdictOf,
                   nStories, portCalls, mainCalls, menus, idle, snap, failedAt, raw, lastCall, screen>>

\* choice 4, "if not new_req": the counter is lowered again, continue
RequestCancel ==
    /\ pc = "newreq"
    /\ idle < MaxIdle
    /\ \E line \in NewRequestLines : strip(line) = <<>>
    /\ customizations_used' = Refund(customizations_used)
    /\ idle' = idle + 1
    /\ lastAction' = "cancel_request"
    /\ pc' = "menu"
    /\ UNCHANGED <<api_key, max_customizations, show_judge_info, reading_level,
                   current_request, story, verdict, mod, frame, returned,
                   verdictOf, nStories, portCalls, mainCalls, menus, snap, failedAt, raw, lastCall, screen>>

\* choice 4 with a new request: current_request = new_req, then the pipeline
ChangeRequest ==
    /\ pc = "newreq"
    /\ \E line \in NewRequestLines :
          /\ strip(line) # <<>>
          /\ current_request' = strip(line)
          /\ CallPipeline(strip(line), reading_level, "menu")
    /\ lastAction' = "request"
    /\ UNCHANGED <<api_key, max_customizations, show_judge_info, reading_level,
                   story, verdict, customizations_used, mod, returned, verdictOf,
                   nStories, portCalls, mainCalls, menus, idle, snap, failedAt, raw, lastCall, screen>>

\* main after customization_menu returned: the closing line is printed
MainFinish ==
    /\ pc = "terminal"
    /\ pc' = "done"
    /\ UNCHANGED <<api_key, max_customizations, show_judge_info, session, mod,
                   frame, returned, verdictOf, nStories, portCalls, mainCalls, history, failedAt, raw, lastCall, screen>>

Next ==
    \/ get_client \/ MainRequest \/ MainSelectLevel \/ MainAskJudge
    \/ PipelineGenerate \/ PipelineJudgeFirst \/ PipelineRevise
    \/ PipelineJudgeSecond \/ MainReceive \/ MenuReceive
    \/ MenuExhausted \/ MenuPrompt \/ Accept \/ InvalidChoice \/ Choose
    \/ SuggestCancel \/ SuggestEdits \/ MenuRevise \/ MenuJudge
    \/ ChangeLevel \/ RequestCancel \/ ChangeRequest \/ MainFinish

Spec == Init /\ [][Next]_vars

(* ------------------------------------------------- judge_story by itself *)
\* judge_story is called on a response of any kind
JudgeCall ==
    /\ pc = "j_call"
    /\ IF JudgeRaises(raw)
       THEN pc' = "crashed" /\ UNCHANGED p_verdict
       ELSE pc' = "j_done" /\ p_verdict' = judge_story(raw)
    /\ UNCHANGED <<api_key, max_customizations, show_judge_info, session, mod,
                   p_request, p_level, p_story, p_ret, p_verdictOf, p_calls,
                   p_revises, p_log, returned, verdictOf, nStories, portCalls, mainCalls,
                   history, failedAt, raw, lastCall, screen>>

\* the next response arrives
JudgeAgain ==
    /\ pc = "j_done"
    /\ raw' \in AllJudgeResponses
    /\ p_verdict' = NoVerdict
    /\ pc' = "j_call"
    /\ UNCHANGED <<api_key, max_customizations, show_judge_info, session, mod,
                   p_request, p_level, p_story, p_ret, p_verdictOf, p_calls,
                   p_revises, p_log, returned, verdictOf, nStories, portCalls, mainCalls,
                   history, failedAt, lastCall, screen>>

InitJudge ==
    /\ pc = "j_call"
    /\ api_key = [present |-> TRUE, value |-> "sk"]
    /\ max_customizations = 0
    /\ raw \in AllJudgeResponses
    /\ Fresh

NextJudge == JudgeCall \/ JudgeAgain

SpecJudge == InitJudge /\ [][NextJudge]_vars

(* ------------------------------------------------------------ properties *)
\* the response is a verdict of the expected structure
WellFormed(r) == r.kind = "object" /\ Keys \subseteq DOMAIN r.obj

\* the verdict is the fail-closed one as far as the caller can tell
FailsClosed(v) ==
    /\ v.score = JNum(0)
    /\ v.needs_revision = JBool(TRUE)
    /\ v.safety_warnings[1] = "str" /\ v.safety_warnings[3] # ""

\* C2: whatever response that is not a well-formed verdict the port gives
\* to judge_story (not JSON, JSON that is no object, an object missing a
\* key), judge_story returns score 0, needs_revision true and a non-empty
\* safety_warnings.
C2_FailClosed ==
    pc = "j_done" /\ ~WellFormed(raw) => FailsClosed(p_verdict)

\* C1: 0 <= customizations_used <= max_customizations in every state,
\* those between the increment and a refund included.
C1_BudgetRange ==
    0 <= customizations_used /\ customizations_used <= max_customizations

\* the counter stands at the maximum inside an iteration, before a refund
C1_Witness ==
    pc = "suggest" /\ max_customizations >= 2
        /\ customizations_used = max_customizations

\* C3: one call of generate_story_with_judge calls revise_story at most once;
\* when the second verdict still asks for a revision the call returns the
\* revised story with that verdict, after 4 port calls and no more.
C3_ReviseOnce ==
    /\ p_revises <= 1
    /\ pc = "p_revise" => p_revises = 0
    /\ (pc = "p_return" /\ p_revises = 1) =>
           /\ p_calls = 4
           /\ p_story = nStories
           /\ p_verdictOf = p_story

C3_Witness ==
    pc = "p_return" /\ p_revises = 1 /\ NeedsRevision(p_verdict)

Cancels == {"cancel_suggest", "cancel_request"}
Customizations == {"suggest", "level", "request"}

\* C4: after a Suggest edits or a Change request with empty text the
\* counter, story, verdict, request, level and the number of port calls are
\* what they were when the menu was presented, and the menu is up next.
C4_CancelNoOp ==
    lastAction \in Cancels => pc = "menu" /\ Session = snap

C4_Witness ==
    lastAction = "cancel_suggest" /\ snap.used = 1 /\ snap.story > 1

\* C5: a customization that was carried out (a suggestion, a level, a new
\* request) has raised customizations_used by exactly 1 when the next menu
\* is presented.
C5_ChargedOnce ==
    (pc = "menu" /\ lastAction \in Customizations) =>
        customizations_used = snap.used + 1

\* max_customizations = 3: an empty suggestion, then one that is carried out
C5_Witness ==
    /\ pc = "menu" /\ lastAction = "suggest"
    /\ max_customizations = 3 /\ idle = 1 /\ menus = 2
    /\ Remaining = 2

\* C6 as stated: customizations_used never becomes smaller than it was.
C6_NeverDecreases == [][customizations_used' >= customizations_used]_vars

\* C6 as amended: customizations_used is never below the value it had when
\* the menu was last presented, so the values at successive presentations
\* do not decrease; inside an iteration it is at most one above that value.
C6_MenuMonotone ==
    menus > 0 =>
        /\ customizations_used >= snap.used
        /\ customizations_used <= snap.used + 1

C6_Witness ==
    pc = "menu" /\ lastAction = "cancel_request" /\ menus = 2
        /\ customizations_used = 1

\* C7: while every menu input was valid and not cancelled and no port call
\* failed, every menu presentation but the last one has used one
\* customization, and the presentation number max_customizations + 1 is the
\* last one: it ends the loop.
C7_Terminates ==
    idle = 0 =>
        /\ menus <= max_customizations + 1
        /\ pc = "menu" => customizations_used = menus
        /\ menus = max_customizations + 1 => pc \in {"terminal", "done"}

C7_Witness ==
    idle = 0 /\ max_customizations = 3 /\ menus = 4 /\ pc = "terminal"
        /\ lastAction = "none"

\* C8: once the menu is presented with no customization remaining, the loop
\* is over: nothing is read, no port call is made, and the story and verdict
\* returned are the current ones, those of the last customization.
C8_ExhaustedReturns ==
    (menus > 0 /\ max_customizations - snap.used <= 0) =>
        /\ pc \in {"terminal", "done"}
        /\ Session = snap
        /\ returned = <<story, verdict>>
        /\ story = nStories

\* max_customizations = 1 and one Change reading level
C8_Witness ==
    /\ pc = "terminal" /\ max_customizations = 1 /\ menus = 2 /\ idle = 0
    /\ lastAction = "none" /\ reading_level = <<"3">> /\ story > 1

\* C9: Accept ends the loop, returns the current story and verdict, leaves
\* customizations_used alone and is followed by no port call.
C9_Accept ==
    lastAction = "accept" =>
        /\ pc \in {"terminal", "done"}
        /\ Session = snap
        /\ returned = <<story, verdict>>

C9_Witness ==
    lastAction = "accept" /\ pc = "done" /\ customizations_used = 2
        /\ NeedsRevision(returned[2])

\* C10 as stated: the current verdict is always the one computed from the
\* current story.
C10_AlwaysPaired == verdictOf = story

\* C10 as amended: the current verdict is the one computed from the current
\* story everywhere but between revise_story and judge_story of a Suggest
\* edits (and where that judge_story call failed): there the story is the
\* revised one and the verdict still that of the story before.
C10_PairedOutsideSuggest ==
    IF pc = "m_judge" \/ failedAt = "m_judge"
    THEN verdictOf # story /\ verdictOf = snap.story
    ELSE verdictOf = story

\* a pipeline run of the menu has revised its story; the session is intact
C10_Witness ==
    pc = "p_judge2" /\ p_ret = "menu" /\ p_story # story /\ verdictOf = story

\* C11: a port call that fails is attempted once and is the last one; the
\* failure is not caught: no verdict is put in its place, nothing runs after
\* it, and the flow never reaches the menu's return.
C11_FailureIsFatal ==
    /\ [](failedAt # "none" => pc = "failed")
    /\ [][failedAt' # failedAt =>
              /\ pc' = "failed"
              /\ portCalls' = portCalls + 1
              /\ UNCHANGED <<story, verdict, p_story, p_verdict, returned, lastCall>>]_vars
    /\ [][pc # "failed"]_vars

\* the judge_story call of a Suggest edits failed
C11_Witness ==
    pc = "failed" /\ failedAt = "m_judge" /\ verdict # FailClosedVerdict

\* C12: a judge_story whose port call returned never raises, whatever came
\* back: on text that is not JSON, on an absent content and on JSON that is
\* no object it returns the fail-closed verdict, and the pipeline or the
\* menu goes on.
C12_JudgeNeverRaises ==
    /\ pc # "crashed"
    /\ (lastCall.fn = "judge" /\ raw.kind # "object") =>
           IF lastCall.story = story
           THEN verdict = FailClosedVerdict
           ELSE p_verdict = FailClosedVerdict

C12_Witness ==
    pc = "menu" /\ lastAction = "suggest" /\ raw.kind = "none"
        /\ verdict = FailClosedVerdict

IsScore(v) == v[1] = "num" /\ 0 <= v[2] /\ v[2] <= 10
IsBoolean(v) == v[1] = "bool"

\* C13: every verdict judge_story returns has a score that is a number in
\* [0, 10] and a needs_revision that is a boolean.
C13_WellFormedVerdict ==
    pc = "j_done" => IsScore(p_verdict.score) /\ IsBoolean(p_verdict.needs_revision)

\* C14: when the menu comes up the story printed last is the current one,
\* one story has been printed for the initial pipeline and one for each
\* customization carried out (none for a cancelled or invalid input); with
\* judge info on, the summary printed last is the verdict of that story,
\* with judge info off no summary is ever printed.
C14_Display ==
    /\ pc = "menu" =>
           /\ shownStory = story
           /\ shows = customizations_used + 1
           /\ show_judge_info => shownVerdict = verdict /\ verdictOf = shownStory
    /\ ~show_judge_info => shownVerdict = NoVerdict

C14_Witness ==
    pc = "menu" /\ show_judge_info /\ lastAction = "level" /\ shows = 2
        /\ shownVerdict = verdict /\ shownStory > 1

KeyMissing == ~api_key.present \/ api_key.value = ""

\* C15: without an API key the program aborts in get_client: no port call
\* is made, no input is read, and nothing follows the abort.
C15_NoKeyAborts ==
    /\ [](KeyMissing =>
              /\ pc \in {"get_client", "abort"}
              /\ portCalls = 0
              /\ current_request = <<>> /\ reading_level = <<>>)
    /\ [][pc # "abort"]_vars

C15_Witness == pc = "abort" /\ ~api_key.present

PipelinePcs == {"p_generate", "p_judge1", "p_revise", "p_judge2", "p_return"}
PipelineOrder == <<"generate", "judge", "revise", "judge">>

\* the port calls of a pipeline call come in the order generate, judge,
\* revise, judge; the revision is made when the first verdict's
\* needs_revision counts as true for Python, with that verdict's feedback and
\* no user instruction
PipelineShape ==
    /\ Len(p_log) <= 4 /\ p_log = SubSeq(PipelineOrder, 1, Len(p_log))
    /\ p_calls = Len(p_log)
    /\ pc = "p_revise" => p_log = <<"generate", "judge">> /\ NeedsRevision(p_verdict)
    /\ pc = "p_judge2" =>
           /\ NeedsRevision(p_verdict)
           /\ p_verdictOf = p_story - 1
           /\ lastCall = ReviseCall(p_request, p_story - 1, p_verdict, p_level, <<>>)
           /\ lastCall.instr = NoExtraRequests
    /\ pc = "p_return" =>
           /\ p_verdictOf = p_story
           /\ lastCall = JudgeStoryCall(p_request, p_story, p_level)
           /\ IF p_revises = 0
              THEN p_log = <<"generate", "judge">> /\ ~NeedsRevision(p_verdict)
              ELSE p_log = PipelineOrder

\* C16: generate_story_with_judge calls generate, judge and then revise,
\* judge if and only if the first verdict's needs_revision is true: 2 port
\* calls when it is not, 4 when it is.
C16_ReviseIffTrue ==
    /\ PipelineShape
    /\ pc \in {"p_revise", "p_judge2"} => p_verdict.needs_revision = JBool(TRUE)

\* C17: Change reading level keeps the request, Change request keeps the
\* level, Suggest edits keeps both; a pipeline call runs with the current
\* request and level, and every port call that returned was made with the
\* current level (a level just chosen is used from the next call on).
C17_FieldsKept ==
    /\ (pc = "menu" /\ lastAction = "level") =>
           current_request = snap.request /\ p_request = snap.request
    /\ (pc = "menu" /\ lastAction = "request") =>
           reading_level = snap.level /\ p_level = snap.level
               /\ current_request # <<>> /\ p_request = current_request
    /\ (pc = "menu" /\ lastAction = "suggest") =>
           current_request = snap.request /\ reading_level = snap.level
    /\ pc \in PipelinePcs => p_request = current_request /\ p_level = reading_level
    /\ (lastCall.fn # "none" /\ pc # "p_generate" /\ failedAt # "p_generate") =>
           lastCall.level = reading_level

C17_Witness ==
    pc = "menu" /\ lastAction = "level" /\ reading_level # snap.level
        /\ lastCall.level = reading_level /\ current_request = <<"b">>

\* C18: after a menu input other than 1, 2, 3, 4 the menu comes up again
\* with counter, story, verdict, request, level and number of port calls as
\* they were.
C18_InvalidNoOp ==
    lastAction = "invalid" => pc = "menu" /\ Session = snap

\* the second free round in a row, no budget used
C18_Witness ==
    lastAction = "invalid" /\ idle = 2 /\ menus = 2 /\ customizations_used = 0

\* C19: a Suggest edits with text makes two port calls: revise_story with
\* the requester's text and the current verdict's feedback, then judge_story
\* on the revised story; no pipeline call, no second revision, and the
\* session holds that story and verdict.
C19_SuggestTwoCalls ==
    /\ lastAction = "suggest" => pc \in {"m_revise", "m_judge", "menu", "failed"}
    /\ pc = "m_judge" =>
           /\ mod # <<>> /\ lastCall.instr = mod
           /\ lastCall = ReviseCall(current_request, snap.story, snap.verdict,
                                    reading_level, mod)
           /\ portCalls = snap.calls + 1
           /\ story = snap.story + 1
    /\ (pc = "menu" /\ lastAction = "suggest") =>
           /\ portCalls = snap.calls + 2
           /\ story = snap.story + 1 /\ story = nStories
           /\ lastCall = JudgeStoryCall(current_request, story, reading_level)
           /\ verdictOf = story

C19_Witness ==
    pc = "menu" /\ lastAction = "suggest" /\ NeedsRevision(verdict)
        /\ snap.used = 1

\* C20: when the menu is presented and when customization_menu returns, the
\* current verdict is what judge_story made of the latest response, and that
\* judge_story call, the latest port call, was made on the current story
\* with the current request and level.
C20_FreshVerdict ==
    /\ pc \in {"menu", "choice", "terminal", "done"} =>
           /\ lastCall = JudgeStoryCall(current_request, story, reading_level)
           /\ verdict = judge_story(raw)
           /\ verdictOf = story
    /\ pc \in {"terminal", "done"} => returned = <<story, verdict>>

C20_Witness ==
    pc = "terminal" /\ lastAction = "accept" /\ current_request = <<"b">>
        /\ reading_level = <<"1">> /\ customizations_used = 2

\* port calls of the initial generate_story_with_judge call of main
InitialCalls == IF menus = 0 THEN portCalls ELSE mainCalls

\* port calls issued inside customization_menu
MenuCalls == IF menus = 0 THEN 0 ELSE portCalls - mainCalls

\* the iteration under way was free: invalid input or a cancelled prompt
FreeRound == lastAction \in {"invalid", "cancel_suggest", "cancel_request"}

\* C21: whatever the requester types, the initial pipeline issues at most 4
\* port calls and customization_menu at most 4 for each customization
\* charged, hence at most 4 * max_customizations; an invalid input or a
\* cancelled prompt issues none.
C21_CallsBounded ==
    /\ InitialCalls <= 4
    /\ MenuCalls <= 4 * customizations_used
    /\ MenuCalls <= 4 * max_customizations
    /\ portCalls <= 4 + 4 * max_customizations
    /\ FreeRound => portCalls = snap.calls

\* every call the budget allows was made, with two free rounds in between
C21_Witness ==
    pc = "terminal" /\ max_customizations = 3 /\ idle = 2
        /\ InitialCalls = 4 /\ MenuCalls = 12 /\ portCalls = 16

====
